---- MODULE Spec2Model ----
(***************************************************************************)
(* Ledger-replay trading account of stock_env.py (GoogleSheetStockEnv)     *)
(* served by the endpoints of main.py.                                     *)
(*                                                                         *)
(* The sheet is the sequence of its rows, the header row first.  A row     *)
(* keeps the columns type, ticker, name, price, qty, amount and            *)
(* balance_after; the timestamp column is written by buy/sell and read by  *)
(* nothing, and is left out.  Tickers and names are sequences of           *)
(* one-character strings so that str.isdigit and str.zfill are computed.   *)
(* Python computes total_cost in floating point; here it is an exact       *)
(* fraction [n, d], so a partial sell is computed in the order of the      *)
(* code (avg = total_cost / prior, total_cost -= avg * qty) without        *)
(* rounding.                                                               *)
(***************************************************************************)
EXTENDS Integers, Sequences, FiniteSets, TLC

\* ---- bounds of the model ------------------------------------------------
MaxOps == 2
MaxQty == 2
MaxNegQty == 1
MaxRestarts == 1
NumThreads == 2
MaxLedger == 2

\* ---- program constants --------------------------------------------------
seed_money == 10000000
ConnectAttempts == 5
AppendAttempts == 3
PadWidth == 6

Threads == 1..NumThreads
Qtys == (0 - MaxNegQty)..MaxQty
Quotes == {4000000, 6000000}
\* what get_current_price returns for the price: fast_info['last_price'], which
\* is a quote or 0, or None when the lookup raised
NoPrice == [none |-> TRUE, value |-> 0]
Price(v) == [none |-> FALSE, value |-> v]
OracleResults == {Price(v) : v \in Quotes \cup {0}} \cup {NoPrice}
Digits == {"0", "1", "2", "3", "4", "5", "6", "7", "8", "9"}
T6 == <<"0", "0", "0", "0", "0", "5">>
T1 == <<"5">>
TA == <<"A">>
Tickers == {T6, T1, TA}
ShortName == <<"N">>
\* the requests and oracle answers drawn when requests interleave (SpecConc)
ConcTickers == {T6}
ConcQtys == 1..MaxQty
ConcQuotes == {6000000}

\* ---- exact fractions ----------------------------------------------------
Abs(x) == IF x < 0 THEN 0 - x ELSE x

RECURSIVE GCD(_, _)
GCD(a, b) == IF b = 0 THEN a ELSE GCD(b, a % b)

Frac(n, d) ==
    LET s == IF d < 0 THEN 0 - 1 ELSE 1
        g == GCD(Abs(n), Abs(d))
    IN  [n |-> (s * n) \div g, d |-> Abs(d) \div g]

Zero == [n |-> 0, d |-> 1]
FracAdd(a, b) == Frac(a.n * b.d + b.n * a.d, a.d * b.d)
FracSub(a, b) == Frac(a.n * b.d - b.n * a.d, a.d * b.d)
FracMul(a, k) == Frac(a.n * k, a.d)
FracDiv(a, k) == Frac(a.n, a.d * k)
FromInt(k) == [n |-> k, d |-> 1]
\* a / b for fractions, b # 0
FracOver(a, b) == Frac(a.n * b.d, a.d * b.n)

\* round(x): the nearest integer, a tie going to the even one
round(x) ==
    LET q == x.n \div x.d
        r == x.n - q * x.d
    IN  IF 2 * r < x.d THEN q
        ELSE IF 2 * r > x.d THEN q + 1
        ELSE IF q % 2 = 0 THEN q ELSE q + 1

\* round(x, 2), in hundredths
round2(x) == round(FracMul(x, 100))

\* ---- strings ------------------------------------------------------------
isdigit(s) == Len(s) > 0 /\ \A i \in 1..Len(s) : s[i] \in Digits

Zeros(k) == [i \in 1..k |-> "0"]

\* str.zfill(width): left-pad with "0", after a leading sign if there is one
zfill(s, width) ==
    IF Len(s) >= width THEN s
    ELSE IF Len(s) > 0 /\ s[1] \in {"+", "-"}
         THEN <<s[1]>> \o Zeros(width - Len(s)) \o Tail(s)
         ELSE Zeros(width - Len(s)) \o s

\* get_current_price: the symbol the oracle is asked for
Symbol(ticker) == IF isdigit(ticker) THEN ticker \o <<".", "K", "S">> ELSE ticker

\* `if not price`: None and 0 are both "no price"
Falsy(price) == price.none \/ price.value = 0

\* ---- the sheet ----------------------------------------------------------
Header == [type |-> "type", ticker |-> <<>>, name |-> <<>>, price |-> 0,
           qty |-> 0, amount |-> 0, balance_after |-> 0]

Row(type, ticker, name, price, qty, amount, bal) ==
    [type |-> type, ticker |-> ticker, name |-> name, price |-> price,
     qty |-> qty, amount |-> amount, balance_after |-> bal]

\* get_all_values(): every row; get_all_records(): the rows under the header
get_all_values(s) == s
get_all_records(s) == IF Len(s) = 0 THEN <<>> ELSE Tail(s)

NewHolding(name) == [qty |-> 0, total_cost |-> Zero, name |-> name]

\* SellHolding with avg taken over the quantity that is left
SellHoldingAvgOfRest(h, qty) ==
    LET left == h.qty - qty
    IN  IF left > 0
        THEN LET avg == FracDiv(h.total_cost, left)
             IN  [err |-> FALSE,
                  h |-> [h EXCEPT !.qty = left,
                                  !.total_cost = FracSub(h.total_cost, FracMul(avg, qty))]]
        ELSE [err |-> FALSE, h |-> [h EXCEPT !.qty = left, !.total_cost = Zero]]

\* the SELL branch shared by the replay fold and by sell: the holding after
\* qty units are sold, or err when avg divides by a prior quantity of 0
SellHolding(h, qty) ==
    LET left == h.qty - qty
    IN  IF left > 0
        THEN IF left + qty = 0
             THEN [err |-> TRUE, h |-> [h EXCEPT !.qty = left]]
             ELSE LET avg == FracDiv(h.total_cost, left + qty)
                  IN  [err |-> FALSE,
                       h |-> [h EXCEPT !.qty = left,
                                       !.total_cost = FracSub(h.total_cost, FracMul(avg, qty))]]
        ELSE [err |-> FALSE, h |-> [h EXCEPT !.qty = left, !.total_cost = Zero]]

\* the loop body of _reconstruct_portfolio without line 51
ReplayRowNoSkip(st, row) ==
    IF st.err THEN st
    ELSE LET ticker == zfill(row.ticker, PadWidth)
             pf == IF ticker \in DOMAIN st.portfolio THEN st.portfolio
                   ELSE st.portfolio @@ (ticker :> NewHolding(row.name))
         IN  IF row.type = "BUY"
             THEN [st EXCEPT !.balance = st.balance - row.amount,
                             !.portfolio = [pf EXCEPT ![ticker] =
                                 [qty |-> pf[ticker].qty + row.qty,
                                  total_cost |-> FracAdd(pf[ticker].total_cost, FromInt(row.amount)),
                                  name |-> row.name]]]
             ELSE IF row.type = "SELL"
             THEN LET r == SellHolding(pf[ticker], row.qty)
                  IN  [balance |-> st.balance + row.amount,
                       portfolio |-> [pf EXCEPT ![ticker] = r.h],
                       err |-> r.err]
             ELSE [st EXCEPT !.portfolio = pf]

\* one iteration of the loop of _reconstruct_portfolio
ReplayRow(st, row) ==
    IF st.err \/ row.ticker = <<>> THEN st
    ELSE LET ticker == zfill(row.ticker, PadWidth)
             pf == IF ticker \in DOMAIN st.portfolio THEN st.portfolio
                   ELSE st.portfolio @@ (ticker :> NewHolding(row.name))
         IN  IF row.type = "BUY"
             THEN [st EXCEPT !.balance = st.balance - row.amount,
                             !.portfolio = [pf EXCEPT ![ticker] =
                                 [qty |-> pf[ticker].qty + row.qty,
                                  total_cost |-> FracAdd(pf[ticker].total_cost, FromInt(row.amount)),
                                  name |-> row.name]]]
             ELSE IF row.type = "SELL"
             THEN LET r == SellHolding(pf[ticker], row.qty)
                  IN  [balance |-> st.balance + row.amount,
                       portfolio |-> [pf EXCEPT ![ticker] = r.h],
                       err |-> r.err]
             ELSE [st EXCEPT !.portfolio = pf]

RECURSIVE ReplayFrom(_, _)
ReplayFrom(st, records) ==
    IF records = <<>> THEN st
    ELSE ReplayFrom(ReplayRow(st, Head(records)), Tail(records))

EmptyPortfolio == <<>>

\* _reconstruct_portfolio after the read: the fold from seed_money
Replay(records) ==
    ReplayFrom([balance |-> seed_money, portfolio |-> EmptyPortfolio, err |-> FALSE], records)

\* ---- state --------------------------------------------------------------
VARIABLES
    sheet,      \* the rows of the store, oldest first
    balance,    \* self.balance
    portfolio,  \* self.portfolio: ticker -> [qty, total_cost, name]
    boot,       \* where module initialisation (main.py:18-20) stands: the step
                \* of _connect_sheet, the attempt, what the last read found
    pc,         \* per request thread: the statement it is about to run
    loc,        \* per request thread: the locals of buy / sell / get_status
    pre,        \* per request thread: balance, portfolio, sheet when the call began
    ops,        \* requests received so far
    restarts,   \* cold starts after the first
    faithful,   \* every trade since the cold start was recorded exactly once
    serial      \* requests are handled one at a time

vars == <<sheet, balance, portfolio, boot, pc, loc, pre, ops, restarts, faithful, serial>>

NoReceipt == [status |-> "none", msg |-> ""]
\* the locals of get_status: total_asset, the dict iterator (the keys still to
\* come and the size the dict had when the loop began), the item at hand,
\* holdings, and the dict it returns
NoReport == [balance |-> 0, total_asset |-> 0, total_roi |-> 0, holdings |-> <<>>]
NoStatus == [total_asset |-> 0, todo |-> {}, size |-> 0, ticker |-> <<>>, qty |-> 0,
             holdings |-> <<>>, report |-> NoReport]
Idle == [op |-> "none", ticker |-> <<>>, qty |-> 0, price |-> NoPrice, total |-> 0,
         name |-> <<>>, row |-> Header, tries |-> 0, stored |-> 0, calls |-> 0,
         receipt |-> NoReceipt, st |-> NoStatus]
NoSnapshot == [balance |-> 0, portfolio |-> EmptyPortfolio, sheet |-> <<>>]
FirstAttempt == [phase |-> "connect", attempt |-> 1, lastRead |-> "none",
                 rereadFailed |-> FALSE]
\* _connect_sheet has returned: __init__ is over and env exists
Up == [phase |-> "up", attempt |-> 0, lastRead |-> "none", rereadFailed |-> FALSE]

InitWith(s) ==
    /\ sheet = <<>>
    /\ balance = 0
    /\ portfolio = EmptyPortfolio
    /\ boot = FirstAttempt
    /\ pc = [t \in Threads |-> "idle"]
    /\ loc = [t \in Threads |-> Idle]
    /\ pre = [t \in Threads |-> NoSnapshot]
    /\ ops = 0
    /\ restarts = 0
    /\ faithful = TRUE
    /\ serial = s

Init == InitWith(TRUE)
InitConc == InitWith(FALSE)

\* sheets the process can find at its start: no rows at all, or the header
\* and up to MaxLedger rows, each a trade row or a row whose ticker cell is
\* empty (a blank row, or a row that lost its ticker)
LedgerRows ==
    {Row("BUY", T6, T6, 4000000, 1, 4000000, 6000000),
     Row("SELL", T6, T6, 6000000, 1, 6000000, 12000000),
     Row("BUY", <<>>, ShortName, 4000000, 1, 4000000, 6000000),
     Row("", <<>>, <<>>, 0, 0, 0, 0)}
Ledgers ==
    {<<>>} \cup {<<Header>> \o rows : rows \in UNION {[1..n -> LedgerRows] : n \in 0..MaxLedger}}

InitReplay ==
    /\ sheet \in Ledgers
    /\ balance = 0
    /\ portfolio = EmptyPortfolio
    /\ boot = FirstAttempt
    /\ pc = [t \in Threads |-> "idle"]
    /\ loc = [t \in Threads |-> Idle]
    /\ pre = [t \in Threads |-> NoSnapshot]
    /\ ops = 0
    /\ restarts = 0
    /\ faithful = TRUE
    /\ serial = FALSE

\* ---- cold start: __init__ -> _connect_sheet under @retry(5) -------------
\* _connect_sheet under a retry that allows one attempt more
AttemptFailedOnceMore(b) ==
    IF b.attempt <= ConnectAttempts
    THEN [phase |-> "connect", attempt |-> b.attempt + 1, lastRead |-> "none",
          rereadFailed |-> b.rereadFailed]
    ELSE [b EXCEPT !.phase = "dead"]

\* an attempt of _connect_sheet raised: tenacity runs it again, or gives up
AttemptFailed(b) ==
    IF b.attempt < ConnectAttempts
    THEN [phase |-> "connect", attempt |-> b.attempt + 1, lastRead |-> "none",
          rereadFailed |-> b.rereadFailed]
    ELSE [b EXCEPT !.phase = "dead"]

\* authorize + open_by_url
connect_open(ok) ==
    /\ boot.phase = "connect"
    /\ boot' = IF ok THEN [boot EXCEPT !.phase = "opened"] ELSE AttemptFailed(boot)
    /\ UNCHANGED <<sheet, balance, portfolio, pc, loc, pre, ops, restarts, faithful, serial>>

\* read_values with the read wrapped in an except that answers "no rows"
read_values_swallow(ok) ==
    /\ boot.phase = "opened"
    /\ boot' = IF ~ok THEN [boot EXCEPT !.phase = "empty", !.lastRead = "failed"]
               ELSE IF get_all_values(sheet) = <<>>
                    THEN [boot EXCEPT !.phase = "empty", !.lastRead = "empty"]
                    ELSE [boot EXCEPT !.phase = "recon", !.lastRead = "rows"]
    /\ UNCHANGED <<sheet, balance, portfolio, pc, loc, pre, ops, restarts, faithful, serial>>

\* `if not self.sheet.get_all_values()`
read_values(ok) ==
    /\ boot.phase = "opened"
    /\ boot' = IF ~ok THEN AttemptFailed([boot EXCEPT !.lastRead = "failed"])
               ELSE IF get_all_values(sheet) = <<>>
                    THEN [boot EXCEPT !.phase = "empty", !.lastRead = "empty"]
                    ELSE [boot EXCEPT !.phase = "recon", !.lastRead = "rows"]
    /\ UNCHANGED <<sheet, balance, portfolio, pc, loc, pre, ops, restarts, faithful, serial>>

\* the empty-sheet branch: header row, then balance and portfolio
write_header(outcome) ==
    /\ boot.phase = "empty"
    /\ sheet' = IF outcome = "fail" THEN sheet ELSE Append(sheet, Header)
    /\ IF outcome = "ok"
       THEN /\ balance' = seed_money
            /\ portfolio' = EmptyPortfolio
            /\ boot' = Up
       ELSE /\ boot' = AttemptFailed(boot)
            /\ UNCHANGED <<balance, portfolio>>
    /\ UNCHANGED <<pc, loc, pre, ops, restarts, faithful, serial>>

\* _reconstruct_portfolio once get_all_records() has returned
Reconstructed ==
    LET st == Replay(get_all_records(sheet))
    IN  /\ balance' = st.balance
        /\ portfolio' = st.portfolio
        /\ boot' = IF st.err THEN AttemptFailed(boot) ELSE Up

\* the first get_all_records() of _reconstruct_portfolio
reconstruct_read(ok) ==
    /\ boot.phase = "recon"
    /\ IF ok THEN Reconstructed
       ELSE /\ boot' = [boot EXCEPT !.phase = "recon_retry"]
            /\ UNCHANGED <<balance, portfolio>>
    /\ UNCHANGED <<sheet, pc, loc, pre, ops, restarts, faithful, serial>>

\* reconstruct_retry whose failure ends the cold start at once
reconstruct_retry_fatal(ok) ==
    /\ boot.phase = "recon_retry"
    /\ IF ok THEN Reconstructed
       ELSE /\ boot' = [boot EXCEPT !.phase = "dead", !.rereadFailed = TRUE]
            /\ UNCHANGED <<balance, portfolio>>
    /\ UNCHANGED <<sheet, pc, loc, pre, ops, restarts, faithful, serial>>

\* except: sleep(2) and the second get_all_records(); rereadFailed records
\* that this cold start has seen it fail
reconstruct_retry(ok) ==
    /\ boot.phase = "recon_retry"
    /\ IF ok THEN Reconstructed
       ELSE /\ boot' = AttemptFailed([boot EXCEPT !.rereadFailed = TRUE])
            /\ UNCHANGED <<balance, portfolio>>
    /\ UNCHANGED <<sheet, pc, loc, pre, ops, restarts, faithful, serial>>

\* the process is started again: memory is gone, the sheet stays
Restart ==
    /\ boot.phase = "up"
    /\ restarts < MaxRestarts
    /\ \A t \in Threads : pc[t] = "idle"
    /\ restarts' = restarts + 1
    /\ boot' = FirstAttempt
    /\ balance' = 0
    /\ portfolio' = EmptyPortfolio
    /\ faithful' = TRUE
    /\ UNCHANGED <<sheet, pc, loc, pre, ops, serial>>

\* ---- requests: main.py buy / sell -> env.buy / env.sell -----------------
Receipt(status, msg) == [status |-> status, msg |-> msg]

Snapshot == [balance |-> balance, portfolio |-> portfolio, sheet |-> sheet]

\* POST /api/buy or /api/sell reaches env.buy / env.sell on thread t
Begin(t, op, ticker, qty) ==
    /\ boot.phase = "up"
    /\ pc[t] = "idle"
    /\ ops < MaxOps
    /\ serial => t = 1
    /\ ops' = ops + 1
    /\ loc' = [loc EXCEPT ![t] = [Idle EXCEPT !.op = op, !.ticker = ticker, !.qty = qty]]
    /\ pre' = [pre EXCEPT ![t] = Snapshot]
    /\ pc' = [pc EXCEPT ![t] = IF op = "buy" THEN "buy_quote" ELSE "sell_check"]
    /\ UNCHANGED <<sheet, balance, portfolio, boot, restarts, faithful, serial>>

\* get_current_price: one call to the oracle; symbol is Symbol(ticker)
get_current_price(t, result, next) ==
    /\ loc' = [loc EXCEPT ![t].price = result, ![t].calls = @ + 1]
    /\ pc' = [pc EXCEPT ![t] = next]
    /\ UNCHANGED <<sheet, balance, portfolio, boot, pre, ops, restarts, faithful, serial>>

Finish(t, receipt) ==
    /\ loc' = [loc EXCEPT ![t].receipt = receipt]
    /\ pc' = [pc EXCEPT ![t] = "done"]

\* buy, line 86
buy_quote(t, result) ==
    /\ pc[t] = "buy_quote"
    /\ get_current_price(t, result, "buy_check")

\* buy_check without the funds check
buy_check_no_funds(t) ==
    /\ pc[t] = "buy_check"
    /\ IF Falsy(loc[t].price) THEN Finish(t, Receipt("fail", "price"))
       ELSE /\ loc' = [loc EXCEPT ![t].total = loc[t].price.value * loc[t].qty]
            /\ pc' = [pc EXCEPT ![t] = "buy_name"]
    /\ UNCHANGED <<sheet, balance, portfolio, boot, pre, ops, restarts, faithful, serial>>

\* buy, lines 87-90: the price check and the funds check
buy_check(t) ==
    /\ pc[t] = "buy_check"
    /\ LET total == loc[t].price.value * loc[t].qty
       IN  IF Falsy(loc[t].price) THEN Finish(t, Receipt("fail", "price"))
           ELSE IF total > balance THEN Finish(t, Receipt("fail", "funds"))
           ELSE /\ loc' = [loc EXCEPT ![t].total = total]
                /\ pc' = [pc EXCEPT ![t] = "buy_name"]
    /\ UNCHANGED <<sheet, balance, portfolio, boot, pre, ops, restarts, faithful, serial>>

\* buy, lines 92-98: the holding's name, or a lookup that falls back to the ticker
buy_name(t, found) ==
    /\ pc[t] = "buy_name"
    /\ LET ticker == loc[t].ticker
       IN  IF ticker \in DOMAIN portfolio /\ portfolio[ticker].name # <<>>
           THEN loc' = [loc EXCEPT ![t].name = portfolio[ticker].name]
           ELSE loc' = [loc EXCEPT ![t].name = IF found THEN ShortName ELSE ticker,
                                   ![t].calls = @ + 1]
    /\ pc' = [pc EXCEPT ![t] = "buy_debit"]
    /\ UNCHANGED <<sheet, balance, portfolio, boot, pre, ops, restarts, faithful, serial>>

\* buy, line 101
buy_debit(t) ==
    /\ pc[t] = "buy_debit"
    /\ balance' = balance - loc[t].total
    /\ pc' = [pc EXCEPT ![t] = "buy_hold"]
    /\ UNCHANGED <<sheet, portfolio, boot, loc, pre, ops, restarts, faithful, serial>>

\* buy, lines 103-108
buy_hold(t) ==
    /\ pc[t] = "buy_hold"
    /\ LET ticker == loc[t].ticker
           pf == IF ticker \in DOMAIN portfolio THEN portfolio
                 ELSE portfolio @@ (ticker :> NewHolding(loc[t].name))
       IN  portfolio' = [pf EXCEPT ![ticker] =
               [qty |-> pf[ticker].qty + loc[t].qty,
                total_cost |-> FracAdd(pf[ticker].total_cost, FromInt(loc[t].total)),
                name |-> loc[t].name]]
    /\ pc' = [pc EXCEPT ![t] = "append"]
    /\ UNCHANGED <<sheet, balance, boot, loc, pre, ops, restarts, faithful, serial>>

\* sell_check with the quote asked for before the holding is looked at
sell_check_after_quote(t) ==
    /\ pc[t] = "sell_check"
    /\ LET ticker == loc[t].ticker
           l == [loc[t] EXCEPT !.calls = @ + 1]
       IN  IF ticker \notin DOMAIN portfolio \/ portfolio[ticker].qty < loc[t].qty
           THEN /\ loc' = [loc EXCEPT ![t] = [l EXCEPT !.receipt = Receipt("fail", "holding")]]
                /\ pc' = [pc EXCEPT ![t] = "done"]
           ELSE /\ pc' = [pc EXCEPT ![t] = "sell_quote"]
                /\ UNCHANGED loc
    /\ UNCHANGED <<sheet, balance, portfolio, boot, pre, ops, restarts, faithful, serial>>

\* sell, lines 114-115
sell_check(t) ==
    /\ pc[t] = "sell_check"
    /\ LET ticker == loc[t].ticker
       IN  IF ticker \notin DOMAIN portfolio \/ portfolio[ticker].qty < loc[t].qty
           THEN Finish(t, Receipt("fail", "holding"))
           ELSE /\ pc' = [pc EXCEPT ![t] = "sell_quote"]
                /\ UNCHANGED loc
    /\ UNCHANGED <<sheet, balance, portfolio, boot, pre, ops, restarts, faithful, serial>>

\* sell, line 117
sell_quote(t, result) ==
    /\ pc[t] = "sell_quote"
    /\ get_current_price(t, result, "sell_credit")

\* sell_credit without the price check: a missing price counts as 0
sell_credit_unchecked(t) ==
    /\ pc[t] = "sell_credit"
    /\ LET total == loc[t].price.value * loc[t].qty
       IN  /\ loc' = [loc EXCEPT ![t].total = total,
                                 ![t].name = portfolio[loc[t].ticker].name]
           /\ balance' = balance + total
           /\ pc' = [pc EXCEPT ![t] = "sell_hold"]
    /\ UNCHANGED <<sheet, portfolio, boot, pre, ops, restarts, faithful, serial>>

\* sell, lines 118-123: the price check, then the credit
sell_credit(t) ==
    /\ pc[t] = "sell_credit"
    /\ IF Falsy(loc[t].price)
       THEN /\ Finish(t, Receipt("fail", "price"))
            /\ UNCHANGED balance
       ELSE LET total == loc[t].price.value * loc[t].qty
            IN  /\ loc' = [loc EXCEPT ![t].total = total,
                                      ![t].name = portfolio[loc[t].ticker].name]
                /\ balance' = balance + total
                /\ pc' = [pc EXCEPT ![t] = "sell_hold"]
    /\ UNCHANGED <<sheet, portfolio, boot, pre, ops, restarts, faithful, serial>>

\* sell, lines 125-130; ZeroDivisionError leaves sell with the quantity changed
sell_hold(t) ==
    /\ pc[t] = "sell_hold"
    /\ LET ticker == loc[t].ticker
           r == SellHolding(portfolio[ticker], loc[t].qty)
       IN  /\ portfolio' = [portfolio EXCEPT ![ticker] = r.h]
           /\ IF r.err THEN Finish(t, Receipt("error", "zerodivision"))
              ELSE /\ pc' = [pc EXCEPT ![t] = "append"]
                   /\ UNCHANGED loc
    /\ UNCHANGED <<sheet, balance, boot, pre, ops, restarts, faithful, serial>>

\* the row buy (line 110) and sell (line 132) hand to _safe_append_row
TradeRow(t) ==
    Row(IF loc[t].op = "buy" THEN "BUY" ELSE "SELL", loc[t].ticker, loc[t].name,
        loc[t].price.value, loc[t].qty, loc[t].total, balance)

\* safe_append_row whose last failure is swallowed: the trade reports success
safe_append_row_swallow(t, outcome) ==
    /\ pc[t] = "append"
    /\ LET row == IF loc[t].tries = 0 THEN TradeRow(t) ELSE loc[t].row
           tries == loc[t].tries + 1
           stored == loc[t].stored + (IF outcome = "fail" THEN 0 ELSE 1)
           l == [loc[t] EXCEPT !.row = row, !.tries = tries, !.stored = stored]
       IN  /\ sheet' = IF outcome = "fail" THEN sheet ELSE Append(sheet, row)
           /\ IF outcome = "ok" \/ tries = AppendAttempts
              THEN /\ loc' = [loc EXCEPT ![t] = [l EXCEPT !.receipt = Receipt("success", "")]]
                   /\ pc' = [pc EXCEPT ![t] = "done"]
              ELSE /\ loc' = [loc EXCEPT ![t] = l]
                   /\ UNCHANGED pc
    /\ UNCHANGED <<balance, portfolio, boot, pre, ops, restarts, faithful, serial>>

\* safe_append_row under a retry that allows one attempt more
safe_append_row_once_more(t, outcome) ==
    /\ pc[t] = "append"
    /\ LET row == IF loc[t].tries = 0 THEN TradeRow(t) ELSE loc[t].row
           tries == loc[t].tries + 1
           stored == loc[t].stored + (IF outcome = "fail" THEN 0 ELSE 1)
           l == [loc[t] EXCEPT !.row = row, !.tries = tries, !.stored = stored]
       IN  /\ sheet' = IF outcome = "fail" THEN sheet ELSE Append(sheet, row)
           /\ IF outcome = "ok"
              THEN /\ loc' = [loc EXCEPT ![t] = [l EXCEPT !.receipt = Receipt("success", "")]]
                   /\ pc' = [pc EXCEPT ![t] = "done"]
              ELSE IF tries = AppendAttempts + 1
              THEN /\ loc' = [loc EXCEPT ![t] = [l EXCEPT !.receipt = Receipt("error", "append")]]
                   /\ pc' = [pc EXCEPT ![t] = "done"]
              ELSE /\ loc' = [loc EXCEPT ![t] = l]
                   /\ UNCHANGED pc
    /\ UNCHANGED <<balance, portfolio, boot, pre, ops, restarts, faithful, serial>>

\* one attempt of _safe_append_row under @retry(3): the store records the row
\* and answers ("ok"), refuses it ("fail"), or records it and the answer is
\* lost ("lost"); the third failure leaves buy / sell as RetryError
safe_append_row(t, outcome) ==
    /\ pc[t] = "append"
    /\ LET row == IF loc[t].tries = 0 THEN TradeRow(t) ELSE loc[t].row
           tries == loc[t].tries + 1
           stored == loc[t].stored + (IF outcome = "fail" THEN 0 ELSE 1)
           l == [loc[t] EXCEPT !.row = row, !.tries = tries, !.stored = stored]
       IN  /\ sheet' = IF outcome = "fail" THEN sheet ELSE Append(sheet, row)
           /\ IF outcome = "ok"
              THEN /\ loc' = [loc EXCEPT ![t] = [l EXCEPT !.receipt = Receipt("success", "")]]
                   /\ pc' = [pc EXCEPT ![t] = "done"]
              ELSE IF tries = AppendAttempts
              THEN /\ loc' = [loc EXCEPT ![t] = [l EXCEPT !.receipt = Receipt("error", "append")]]
                   /\ pc' = [pc EXCEPT ![t] = "done"]
              ELSE /\ loc' = [loc EXCEPT ![t] = l]
                   /\ UNCHANGED pc
    /\ UNCHANGED <<balance, portfolio, boot, pre, ops, restarts, faithful, serial>>

\* ---- get_status: GET / and GET /api/status ------------------------------
\* GET / or GET /api/status reaches env.get_status on thread t
BeginStatus(t) ==
    /\ boot.phase = "up"
    /\ pc[t] = "idle"
    /\ ops < MaxOps
    /\ serial => t = 1
    /\ ops' = ops + 1
    /\ loc' = [loc EXCEPT ![t] = [Idle EXCEPT !.op = "status"]]
    /\ pre' = [pre EXCEPT ![t] = Snapshot]
    /\ pc' = [pc EXCEPT ![t] = "status_start"]
    /\ UNCHANGED <<sheet, balance, portfolio, boot, restarts, faithful, serial>>

\* get_status, lines 137-140: total_asset = self.balance, and the iterator
\* over self.portfolio.items()
status_start(t) ==
    /\ pc[t] = "status_start"
    /\ loc' = [loc EXCEPT ![t].st.total_asset = balance,
                          ![t].st.todo = DOMAIN portfolio,
                          ![t].st.size = Cardinality(DOMAIN portfolio)]
    /\ pc' = [pc EXCEPT ![t] = "status_next"]
    /\ UNCHANGED <<sheet, balance, portfolio, boot, pre, ops, restarts, faithful, serial>>

\* get_status, lines 140-142: the next item and its qty; a dict that changed
\* size since the loop began raises RuntimeError
status_next(t, k) ==
    /\ pc[t] = "status_next"
    /\ k \in loc[t].st.todo
    /\ IF Cardinality(DOMAIN portfolio) # loc[t].st.size
       THEN Finish(t, Receipt("error", "dictsize"))
       ELSE /\ loc' = [loc EXCEPT ![t].st.todo = @ \ {k},
                                  ![t].st.ticker = k,
                                  ![t].st.qty = portfolio[k].qty]
            /\ pc' = [pc EXCEPT ![t] = IF portfolio[k].qty > 0 THEN "status_quote"
                                      ELSE "status_next"]
    /\ UNCHANGED <<sheet, balance, portfolio, boot, pre, ops, restarts, faithful, serial>>

\* one entry of holdings, lines 147-163, from the item's qty, the quote and
\* the item's total_cost and name as they are now
HoldingReport(k, qty, current_price) ==
    LET val == current_price * qty
        cost == portfolio[k].total_cost
        profit == FracSub(FromInt(val), cost)
        roi == IF cost.n > 0 THEN FracMul(FracOver(profit, cost), 100) ELSE Zero
    IN  [val |-> val,
         entry |-> [ticker |-> k, name |-> portfolio[k].name, qty |-> qty,
                    avg_price |-> round(FracDiv(cost, qty)),
                    current_price |-> current_price,
                    roi |-> round2(roi),
                    valuation |-> val]]

\* get_status, lines 144-163: the quote (0 when there is none) and the entry
status_quote(t, result) ==
    /\ pc[t] = "status_quote"
    /\ LET current_price == IF Falsy(result) THEN 0 ELSE result.value
           h == HoldingReport(loc[t].st.ticker, loc[t].st.qty, current_price)
       IN  loc' = [loc EXCEPT ![t].price = result,
                              ![t].calls = @ + 1,
                              ![t].st.total_asset = @ + h.val,
                              ![t].st.holdings = Append(@, h.entry)]
    /\ pc' = [pc EXCEPT ![t] = "status_next"]
    /\ UNCHANGED <<sheet, balance, portfolio, boot, pre, ops, restarts, faithful, serial>>

\* get_status, lines 140 and 165-173: the loop ends and the dict is returned
status_end(t) ==
    /\ pc[t] = "status_next"
    /\ loc[t].st.todo = {}
    /\ IF Cardinality(DOMAIN portfolio) # loc[t].st.size
       THEN Finish(t, Receipt("error", "dictsize"))
       ELSE /\ loc' = [loc EXCEPT
                  ![t].st.report =
                      [balance |-> balance,
                       total_asset |-> loc[t].st.total_asset,
                       total_roi |-> round2(FracMul(Frac(loc[t].st.total_asset - seed_money,
                                                         seed_money), 100)),
                       holdings |-> loc[t].st.holdings],
                  ![t].receipt = Receipt("status", "")]
            /\ pc' = [pc EXCEPT ![t] = "done"]
    /\ UNCHANGED <<sheet, balance, portfolio, boot, pre, ops, restarts, faithful, serial>>

\* the endpoint returns the receipt (or the 500 of an exception)
Return(t) ==
    /\ pc[t] = "done"
    /\ faithful' = (faithful /\ (\/ loc[t].op = "status"
                                 \/ loc[t].receipt.status = "fail"
                                 \/ loc[t].receipt.status = "success" /\ loc[t].stored = 1))
    /\ pc' = [pc EXCEPT ![t] = "idle"]
    /\ loc' = [loc EXCEPT ![t] = Idle]
    /\ pre' = [pre EXCEPT ![t] = NoSnapshot]
    /\ UNCHANGED <<sheet, balance, portfolio, boot, ops, restarts, serial>>

\* the inputs of a step: requests, oracle answers, store answers
TickerInputs == IF serial THEN Tickers ELSE ConcTickers
QtyInputs == IF serial THEN Qtys ELSE ConcQtys
OracleInputs == IF serial THEN OracleResults ELSE {Price(v) : v \in ConcQuotes} \cup {NoPrice}
NameInputs == IF serial THEN BOOLEAN ELSE {FALSE}
StoreInputs == IF serial THEN {"ok", "fail", "lost"} ELSE {"ok", "fail"}

\* the keys a holding can have: what buy was given, or what replay pads it to
TickerKeys == Tickers \cup {zfill(k, PadWidth) : k \in Tickers}

Next ==
    \/ \E ok \in BOOLEAN : connect_open(ok)
    \/ \E ok \in BOOLEAN : read_values(ok)
    \/ \E outcome \in StoreInputs : write_header(outcome)
    \/ \E ok \in BOOLEAN : reconstruct_read(ok)
    \/ \E ok \in BOOLEAN : reconstruct_retry(ok)
    \/ Restart
    \/ \E t \in Threads, op \in {"buy", "sell"}, ticker \in TickerInputs, qty \in QtyInputs :
           Begin(t, op, ticker, qty)
    \/ \E t \in Threads, result \in OracleInputs : buy_quote(t, result)
    \/ \E t \in Threads : buy_check(t)
    \/ \E t \in Threads, found \in NameInputs : buy_name(t, found)
    \/ \E t \in Threads : buy_debit(t)
    \/ \E t \in Threads : buy_hold(t)
    \/ \E t \in Threads : sell_check(t)
    \/ \E t \in Threads, result \in OracleInputs : sell_quote(t, result)
    \/ \E t \in Threads : sell_credit(t)
    \/ \E t \in Threads : sell_hold(t)
    \/ \E t \in Threads, outcome \in StoreInputs : safe_append_row(t, outcome)
    \/ \E t \in Threads : BeginStatus(t)
    \/ \E t \in Threads : status_start(t)
    \/ \E t \in Threads, k \in TickerKeys : status_next(t, k)
    \/ \E t \in Threads, result \in OracleInputs : status_quote(t, result)
    \/ \E t \in Threads : status_end(t)
    \/ \E t \in Threads : Return(t)

\* requests one at a time
Spec == Init /\ [][Next]_vars
\* requests on the threadpool, interleaved
SpecConc == InitConc /\ [][Next]_vars
\* the process started on a sheet that already has rows
SpecReplay == InitReplay /\ [][Next]_vars

\* ---- properties ---------------------------------------------------------
AllIdle == \A t \in Threads : pc[t] = "idle"
Entries == get_all_records(sheet)
Sign(type) == IF type = "BUY" THEN 0 - 1 ELSE 1

\* C1: every ledger entry's balance_after is the previous entry's
\* balance_after (seed_money for the first) plus amount for a SELL, minus
\* amount for a BUY.
BalanceConservation ==
    \A i \in 1..Len(Entries) :
        Entries[i].balance_after =
            (IF i = 1 THEN seed_money ELSE Entries[i - 1].balance_after)
            + Entries[i].amount * Sign(Entries[i].type)

\* qty and total_cost per ticker, the name left aside
Positions(pf) == [k \in DOMAIN pf |-> <<pf[k].qty, pf[k].total_cost>>]

\* C2: once every accepted trade was appended, replaying the sheet gives the
\* balance and the holdings (keys, qty, total_cost) the engine holds.
ReplayReproducesLive ==
    (boot.phase = "up" /\ AllIdle /\ faithful) =>
        LET st == Replay(Entries)
        IN  /\ ~st.err
            /\ st.balance = balance
            /\ Positions(st.portfolio) = Positions(portfolio)

\* the call of thread t was given a price and costs more than the balance it met
Unaffordable(t) ==
    /\ loc[t].op = "buy"
    /\ loc[t].calls > 0
    /\ ~loc[t].price.none
    /\ loc[t].price.value # 0
    /\ loc[t].price.value * loc[t].qty > pre[t].balance

\* C3: a buy whose price*qty exceeds the balance ends with the failure
\* receipt for insufficient funds, and balance, holdings and sheet are those
\* the call began with.
BuyOverBalanceRejected ==
    \A t \in Threads : Unaffordable(t) =>
        /\ pc[t] \in {"buy_check", "done"}
        /\ Snapshot = pre[t]
        /\ pc[t] = "done" => loc[t].receipt = Receipt("fail", "funds")

BuyOverBalanceWitness ==
    \E t \in Threads :
        /\ Unaffordable(t)
        /\ pc[t] = "done"
        /\ loc[t].receipt = Receipt("fail", "funds")
        /\ pre[t].balance < seed_money

\* the sell of thread t asks for a ticker not held or for more than is held
Unheld(t) ==
    /\ loc[t].op = "sell"
    /\ \/ loc[t].ticker \notin DOMAIN pre[t].portfolio
       \/ pre[t].portfolio[loc[t].ticker].qty < loc[t].qty

\* C4: a sell of a ticker without a holding, or of more than is held, ends
\* with the failure receipt for the holding with no oracle call issued, and
\* balance, holdings and sheet are those the call began with.
SellUnheldRejectedBeforeQuote ==
    \A t \in Threads : Unheld(t) =>
        /\ pc[t] \in {"sell_check", "done"}
        /\ loc[t].calls = 0
        /\ Snapshot = pre[t]
        /\ pc[t] = "done" => loc[t].receipt = Receipt("fail", "holding")

SellUnheldWitness ==
    \E t \in Threads :
        /\ Unheld(t)
        /\ pc[t] = "done"
        /\ loc[t].ticker \in DOMAIN portfolio
        /\ portfolio[loc[t].ticker].qty > 0

\* the oracle answered the quote of thread t's call with no price
Unquoted(t) ==
    /\ loc[t].op \in {"buy", "sell"}
    /\ pc[t] \notin {"idle", "buy_quote", "sell_check", "sell_quote"}
    /\ loc[t].calls > 0
    /\ loc[t].price.none

\* C5: a buy or sell whose quote came back without a price ends with the
\* failure receipt for the price, and balance, holdings and sheet are those
\* the call began with.
NoPriceNoMutation ==
    \A t \in Threads : Unquoted(t) =>
        /\ pc[t] \in {"buy_check", "sell_credit", "done"}
        /\ Snapshot = pre[t]
        /\ pc[t] = "done" => loc[t].receipt = Receipt("fail", "price")

NoPriceWitness ==
    \E t \in Threads :
        /\ Unquoted(t)
        /\ pc[t] = "done"
        /\ loc[t].op = "sell"
        /\ loc[t].receipt = Receipt("fail", "price")

\* C6: between calls every holding has qty >= 0 and total_cost >= 0.
NonNegativity ==
    (boot.phase = "up" /\ AllIdle) =>
        \A k \in DOMAIN portfolio : portfolio[k].qty >= 0 /\ portfolio[k].total_cost.n >= 0

\* C7: between calls a holding with qty = 0 has total_cost = 0.
ClosedPosition ==
    (boot.phase = "up" /\ AllIdle) =>
        \A k \in DOMAIN portfolio : portfolio[k].qty = 0 => portfolio[k].total_cost = Zero

\* thread t has passed the funds or holding check of a trade whose append
\* has not yet ended
InTrade(t) ==
    pc[t] \in {"buy_name", "buy_debit", "buy_hold", "sell_quote", "sell_credit",
               "sell_hold", "append"}

\* C8: the validate -> mutate -> append steps of two trades never overlap.
TradesSerialized ==
    \A t, u \in Threads : (t # u) => ~(InTrade(t) /\ InTrade(u))

\* every append attempt of thread t's trade was refused by the store
AppendExhausted(t) ==
    /\ pc[t] = "done"
    /\ loc[t].tries = AppendAttempts
    /\ loc[t].stored = 0

\* the holding of the traded ticker reflects the trade on top of the holding
\* the call began with
HoldingReflectsTrade(t) ==
    LET k == loc[t].ticker
        q == loc[t].qty
        old == IF k \in DOMAIN pre[t].portfolio THEN pre[t].portfolio[k]
               ELSE NewHolding(loc[t].name)
        new == portfolio[k]
    IN  IF loc[t].op = "buy"
        THEN /\ new.qty = old.qty + q
             /\ new.total_cost.n * old.total_cost.d
                    = (old.total_cost.n + loc[t].total * old.total_cost.d) * new.total_cost.d
        ELSE /\ new.qty = old.qty - q
             /\ IF new.qty > 0
                THEN new.total_cost.n * old.total_cost.d * old.qty
                         = old.total_cost.n * (old.qty - q) * new.total_cost.d
                ELSE new.total_cost = Zero

\* C9: when every append attempt of a valid trade fails, the call ends in an
\* error, the sheet is the one the call began with, and balance and holding
\* are those the call began with plus the trade; a replay of the sheet gives
\* the balance from before the trade.
AppendFailureDiverges ==
    \A t \in Threads : AppendExhausted(t) =>
        /\ loc[t].receipt = Receipt("error", "append")
        /\ sheet = pre[t].sheet
        /\ loc[t].total = loc[t].price.value * loc[t].qty
        /\ balance = pre[t].balance
                     + (IF loc[t].op = "buy" THEN 0 - loc[t].total ELSE loc[t].total)
        /\ loc[t].ticker \in DOMAIN portfolio
        /\ HoldingReflectsTrade(t)
        /\ \A k \in DOMAIN pre[t].portfolio :
               k # loc[t].ticker => k \in DOMAIN portfolio /\ portfolio[k] = pre[t].portfolio[k]
        /\ DOMAIN portfolio \subseteq DOMAIN pre[t].portfolio \cup {loc[t].ticker}
        /\ (faithful /\ ~Replay(Entries).err) => Replay(Entries).balance = pre[t].balance

AppendFailureWitness ==
    \E t \in Threads :
        /\ AppendExhausted(t)
        /\ loc[t].op = "sell"
        /\ loc[t].qty > 0
        /\ portfolio[loc[t].ticker].qty > 0
        /\ faithful

\* C10: during a cold start the sheet is written (the header row) only after
\* a read that succeeded and found no rows, and the cold start ends either
\* with seed_money and no holdings on the sheet it just gave its header, or
\* with the fold of every entry of the sheet.
ColdStartStep ==
    /\ (boot.phase # "up" /\ sheet' # sheet) =>
           /\ boot.lastRead = "empty"
           /\ sheet = <<>>
           /\ sheet' = <<Header>>
    /\ (boot.phase # "up" /\ boot'.phase = "up") =>
           \/ /\ boot.lastRead = "empty"
              /\ sheet = <<>>
              /\ sheet' = <<Header>>
              /\ balance' = seed_money
              /\ portfolio' = EmptyPortfolio
           \/ /\ boot.lastRead = "rows"
              /\ sheet' = sheet
              /\ sheet # <<>>
              /\ ~Replay(get_all_records(sheet)).err
              /\ balance' = Replay(get_all_records(sheet)).balance
              /\ portfolio' = Replay(get_all_records(sheet)).portfolio

FailedReadNeverEmpty == [][ColdStartStep]_vars

FailedReadWitness ==
    /\ boot.phase = "recon_retry"
    /\ Len(Entries) > 0

\* one step of the program, seen from the cold start
ConnectStep ==
    /\ boot.attempt <= ConnectAttempts
    /\ boot'.attempt <= ConnectAttempts
    /\ boot.phase # "dead"
    /\ boot'.phase = "dead" => boot.attempt = ConnectAttempts
    /\ boot.phase # "up" =>
           /\ AllIdle
           /\ pc' = pc
           /\ loc' = loc
           /\ boot'.phase = "up" =>
                  /\ boot.attempt \in 1..ConnectAttempts
                  /\ ~Replay(get_all_records(sheet')).err
                  /\ balance' = Replay(get_all_records(sheet')).balance
                  /\ portfolio' = Replay(get_all_records(sheet')).portfolio

\* C11: _connect_sheet is attempted at most ConnectAttempts times; once the
\* last attempt has failed nothing runs any more: no request ever starts and
\* nothing reads or writes balance, holdings or sheet; when an attempt succeeds the
\* cold start ends with balance and holdings set to the fold of the sheet's
\* entries (seed_money and no holdings for a sheet that has just its header).
ConnectBoundedAndFatal == [][ConnectStep]_vars

ConnectExhaustedWitness ==
    /\ boot.phase = "dead"
    /\ boot.attempt = ConnectAttempts
    /\ restarts > 0
    /\ Len(Entries) > 0
    /\ AllIdle

\* thread t's sell of q units, 0 < q <= Q, of a holding of Q > 0 units has
\* run through line 130
SoldFromHolding(t) ==
    /\ loc[t].op = "sell"
    /\ pc[t] = "append"
    /\ loc[t].tries = 0
    /\ loc[t].ticker \in DOMAIN pre[t].portfolio
    /\ pre[t].portfolio[loc[t].ticker].qty > 0
    /\ loc[t].qty > 0
    /\ loc[t].qty <= pre[t].portfolio[loc[t].ticker].qty

\* C12: a sell of q units at price p from a holding of Q units with cost C,
\* 0 < q <= Q, leaves qty = Q - q and credits the balance with p*q; for q < Q
\* the cost left is C*(Q - q)/Q, so cost per unit is unchanged; for q = Q the
\* cost left is 0.
PartialSellKeepsAverage ==
    \A t \in Threads : SoldFromHolding(t) =>
        LET old == pre[t].portfolio[loc[t].ticker]
            new == portfolio[loc[t].ticker]
            C == old.total_cost
            Q == old.qty
            q == loc[t].qty
        IN  /\ new.qty = Q - q
            /\ balance = pre[t].balance + loc[t].price.value * q
            /\ q < Q => /\ new.total_cost.n * C.d * Q = C.n * (Q - q) * new.total_cost.d
                        /\ new.total_cost.n * C.d * Q = C.n * new.qty * new.total_cost.d
            /\ q = Q => new.total_cost = Zero

PartialSellWitness ==
    \E t \in Threads :
        /\ SoldFromHolding(t)
        /\ loc[t].qty < pre[t].portfolio[loc[t].ticker].qty
        /\ portfolio[loc[t].ticker].total_cost.n > 0

\* C14: every entry buy or sell appended has qty > 0, price > 0 and
\* amount = price * qty, and the entry a trade has just appended carries the
\* balance the engine holds.
WellFormedEntries ==
    /\ \A i \in 1..Len(Entries) :
           /\ Entries[i].qty > 0
           /\ Entries[i].price > 0
           /\ Entries[i].amount = Entries[i].price * Entries[i].qty
    /\ \A t \in Threads :
           (pc[t] = "done" /\ loc[t].stored > 0) => sheet[Len(sheet)].balance_after = balance

\* C15: a trade makes at most AppendAttempts append attempts, and a trade
\* that ended with the success receipt made an attempt the store accepted:
\* its row is an entry of the sheet.
AppendBoundedBeforeSuccess ==
    \A t \in Threads :
        /\ loc[t].tries <= AppendAttempts
        /\ pc[t] = "append" => loc[t].tries < AppendAttempts
        /\ loc[t].stored <= loc[t].tries
        /\ loc[t].receipt.status = "success" =>
               /\ loc[t].op \in {"buy", "sell"}
               /\ loc[t].tries >= 1
               /\ loc[t].stored >= 1
               /\ \E i \in 1..Len(Entries) : Entries[i] = loc[t].row

AppendRetriedWitness ==
    \E t \in Threads :
        /\ loc[t].receipt.status = "success"
        /\ loc[t].tries = AppendAttempts
        /\ loc[t].stored = 1

\* thread t's trade ended with the success receipt after the store had
\* recorded its row more than once; every entry has a six-character ticker
\* and a positive qty, and every earlier trade was recorded exactly once
RecordedTwice(t) ==
    /\ pc[t] = "done"
    /\ loc[t].receipt.status = "success"
    /\ loc[t].stored >= 2
    /\ faithful
    /\ \A i \in 1..Len(Entries) : Len(Entries[i].ticker) = PadWidth /\ Entries[i].qty > 0

\* C16: when the store recorded a trade's row, answered with a failure, and
\* the retry recorded the row again, replaying the sheet gives the balance
\* and the holdings the engine holds.
DuplicateAppendTolerated ==
    \A t \in Threads : RecordedTwice(t) =>
        LET st == Replay(Entries)
        IN  /\ ~st.err
            /\ st.balance = balance
            /\ Positions(st.portfolio) = Positions(portfolio)

\* C20: from a fresh account, with calls handled one at a time, the balance
\* never goes below 0.
NoOverdraft ==
    (serial /\ boot.phase = "up" /\ restarts = 0) => balance >= 0

\* C17 as stated: once the second get_all_records() of _reconstruct_portfolio
\* has failed the cold start is over: the failure is fatal and the store is
\* not read again.
SecondReadFailureFatal ==
    boot.rereadFailed => boot.phase = "dead"

\* one step of the cold start, seen from the reads of _reconstruct_portfolio
\* on a sheet whose entries fold without an error
ReadRetryStep ==
    ~Replay(get_all_records(sheet)).err =>
        /\ (boot.phase = "recon" /\ boot'.phase \notin {"recon", "up"}) =>
               boot' = [boot EXCEPT !.phase = "recon_retry"]
        /\ (boot.phase = "recon_retry" /\ boot'.phase \notin {"recon_retry", "up"}) =>
               /\ boot'.rereadFailed
               /\ IF boot.attempt = ConnectAttempts
                  THEN boot'.phase = "dead"
                  ELSE boot'.phase = "connect" /\ boot'.attempt = boot.attempt + 1
        /\ (boot'.rereadFailed /\ ~boot.rereadFailed) => boot.phase = "recon_retry"
        /\ (boot.phase = "dead" \/ boot.phase = "up") => boot'.phase \notin {"recon", "recon_retry"}

\* C17, amended: a failed get_all_records() is followed by exactly one more
\* read within the same attempt of _connect_sheet; when that read fails too
\* the attempt fails, and _connect_sheet runs again and reads the store again
\* unless it was the last of the ConnectAttempts attempts, after which the
\* cold start is over.
SecondReadFailureEndsAttempt == [][ReadRetryStep]_vars

RereadAfterSecondFailureWitness ==
    /\ boot.rereadFailed
    /\ boot.phase = "recon"
    /\ Len(Entries) > 0
    /\ ~Replay(Entries).err

\* the rows line 51 lets through
WithTicker(records) == SelectSeq(records, LAMBDA row : row.ticker # <<>>)

\* one step of the program, seen from the rows without a ticker
MalformedRowStep ==
    LET all == Replay(Entries)
        kept == Replay(WithTicker(Entries))
    IN  /\ all = kept
        /\ (boot.phase \in {"recon", "recon_retry"} /\ boot'.phase = "up") =>
               /\ ~kept.err
               /\ balance' = kept.balance
               /\ portfolio' = kept.portfolio

\* C18: a replay of a sheet with rows whose ticker is missing or empty runs
\* to its end as the replay of the sheet without those rows does, and gives
\* the same balance and holdings.
MalformedRowsSkipped == [][MalformedRowStep]_vars

MalformedRowWitness ==
    /\ boot.phase = "up"
    /\ ops = 0
    /\ \E i, j \in 1..Len(Entries) :
           /\ i < j
           /\ Entries[i].ticker = <<>>
           /\ Entries[i].amount > 0
           /\ Entries[j].ticker # <<>>
    /\ balance = seed_money - 4000000
    /\ DOMAIN portfolio = {T6}

RECURSIVE SumValuation(_)
SumValuation(holdings) ==
    IF holdings = <<>> THEN 0
    ELSE Head(holdings).valuation + SumValuation(Tail(holdings))

\* the balance the report of thread s was computed from, and the quantity of
\* ticker k it was computed from (0 when holdings has no entry for k)
UsedBalance(s) ==
    loc[s].st.report.total_asset - SumValuation(loc[s].st.report.holdings)
UsedQty(s, k) ==
    LET h == loc[s].st.report.holdings
    IN  IF \E i \in 1..Len(h) : h[i].ticker = k
        THEN h[CHOOSE i \in 1..Len(h) : h[i].ticker = k].qty
        ELSE 0

\* balance and quantity of the traded ticker before thread u's trade, and
\* after it
QtyIn(pf, k) == IF k \in DOMAIN pf THEN pf[k].qty ELSE 0
BalanceAfter(u) ==
    pre[u].balance + (IF loc[u].op = "buy" THEN 0 - loc[u].total ELSE loc[u].total)
QtyAfter(u) ==
    QtyIn(pre[u].portfolio, loc[u].ticker)
        + (IF loc[u].op = "buy" THEN loc[u].qty ELSE 0 - loc[u].qty)

\* get_status on thread s has returned its report while thread u is in, or
\* has just ended, a trade that passed its checks
ReportedDuring(s, u) ==
    /\ s # u
    /\ pc[s] = "done"
    /\ loc[s].receipt.status = "status"
    /\ loc[u].op \in {"buy", "sell"}
    /\ loc[u].total > 0

StatusStep ==
    /\ \A s, u \in Threads : ReportedDuring(s, u) =>
           ~(/\ UsedBalance(s) = BalanceAfter(u)
             /\ UsedQty(s, loc[u].ticker) = QtyIn(pre[u].portfolio, loc[u].ticker)
             /\ UsedQty(s, loc[u].ticker) # QtyAfter(u))
    /\ \A s \in Threads : (loc[s].op = "status" /\ pc'[s] # pc[s]) =>
           (balance' = balance /\ portfolio' = portfolio /\ sheet' = sheet)

\* C19: a report of get_status that overlaps a trade is never computed from
\* the balance after the trade together with the traded ticker's quantity
\* from before it, and the steps of get_status leave balance, holdings and
\* sheet as they are.
StatusSnapshotConsistent == [][StatusStep]_vars

====
